---- MODULE Spec2Model ----
(***************************************************************************)
(* Model of simular::allocators::arena_memory_resource (arena.hpp) on the  *)
(* POSIX backend, together with detail::calc_fwd_adjust (common.hpp), the  *)
(* linear and scratch buffer resources (linear.hpp, scratch.hpp) and vmem  *)
(* (virtual.hpp).                                                          *)
(*                                                                         *)
(* Addresses and sizes are the program's own numbers (bytes).  The vector  *)
(* free_list_ is modelled with its raw storage: free_list_ is the range    *)
(* [begin(), end()) and spare is what the storage holds from end() on      *)
(* (stale copies of erased elements; never-written slots read as zero,     *)
(* because the storage lies in a fresh anonymous mapping).                 *)
(***************************************************************************)
EXTENDS Integers, Sequences, FiniteSets, Bags, TLC

VARIABLES
    phase,          \* "none", "live", "failed", "aborted", "dangling",
                    \* "destroyed"
    regions,        \* the chain first_ -> next -> ... as a sequence of bases
    linbufres_,     \* [buffer, length, count] of the embedded linear resource
    free_list_,     \* the elements of the vector, in vector order
    spare,          \* raw storage of the vector from end() onwards
    total_used,
    total_size,
    total_regions,
    allocations,
    live,           \* bag of [ptr, bytes, alignment] handed out, not yet freed
    last,           \* the last call: its arguments, result and pre-state
    scenario,       \* progress through "allocate A,B,C; free A,C,B"
    nallocs,        \* number of allocate calls made so far
    mapped,         \* the process's anonymous mappings, as [base, size]
    released,       \* the addresses handed to munmap, in call order
    other,          \* a second memory resource the arena is compared with
    lbr,            \* a linear_buffer_resource used on its own
    llast,          \* the last call made on lbr
    lmem,           \* the bytes of lbr's buffer
    lspans,         \* the latest [ptr, bytes] lbr returned since a reset
    sbr,            \* a scratch_buffer_resource used on its own
    up,             \* the calls sbr made on its upstream resource
    slast,          \* the last call made on sbr
    syscalls,       \* the mmap calls of the constructor, with their outcome
    vm,             \* a vmem (virtual.hpp) with the regions it acquired
    vlast,          \* the last call made on vm
    vspans          \* the [ptr, size] vm returned, in call order

vars == <<phase, regions, linbufres_, free_list_, spare, total_used,
          total_size, total_regions, allocations, live, last, scenario,
          nallocs, mapped, released, other, lbr, llast, lmem, sbr, up, slast,
          syscalls, lspans, vm, vlast, vspans>>

linear_vars == <<lbr, llast, lmem, lspans>>

scratch_vars == <<sbr, up, slast>>

vmem_vars == <<vm, vlast, vspans>>

----------------------------------------------------------------------------
(* Program constants.                                                      *)

k_max_alloc_size == 4194296
k_default_capacity == 4
k_free_list_size == 32
sizeof_region == 8
sizeof_freed == 16
alignof_freed == 8
mebibytes == 1048576
PageSize == 4096
k_regsize == k_max_alloc_size + sizeof_region

(* Bounds of the exploration.                                              *)
MaxCapacity == 8
MaxAllocs == 3
MaxEdgeAllocs == 2
MaxEqualAllocs == 2
MaxLinearLength == 16
MaxLinearSpans == 2
MaxRefusals == 5
MaxPosixAllocs == 1
MaxStackedAllocs == 1
MaxStackedReleases == 2
MaxVmemAllocs == 3
MaxVmemRegions == 5

(* Page-aligned addresses the kernel may hand out for a mapping of         *)
(* k_regsize bytes; the first two are back to back.                        *)
BaseAddrs == {268435456, 268435456 + k_regsize, 536870912}

(* Arguments the callers pass to allocate.                                 *)
ByteSizes == {1, 8, k_max_alloc_size}
Alignments == {1, 8}

Zero == [size |-> 0, addr |-> 0]

----------------------------------------------------------------------------
(* Helpers on sequences.                                                   *)

RemoveAt(s, i) == SubSeq(s, 1, i - 1) \o SubSeq(s, i + 1, Len(s))

InsertAt(s, i, v) == SubSeq(s, 1, i - 1) \o <<v>> \o SubSeq(s, i, Len(s))

ReplaceAt(s, i, v) == [s EXCEPT ![i] = v]

RECURSIVE BitAnd(_, _)
BitAnd(x, y) ==
    IF x = 0 \/ y = 0 THEN 0
    ELSE (x % 2) * (y % 2) + 2 * BitAnd(x \div 2, y \div 2)

(* aligned = (iptr + alignm1) & ~alignm1, written as x - (x & alignm1),    *)
(* which is the same number in any word width.                             *)
calc_fwd_adjust(ptr, alignment) ==
    LET alignm1 == alignment - 1
        sum     == ptr + alignm1
        aligned == sum - BitAnd(sum, alignm1)
    IN  aligned - ptr

(* A comparator that orders the blocks by where they start.                *)
freed_addr_comparator(lhs, rhs) == lhs.addr < rhs.addr

(* freed_size_comparator                                                   *)
freed_size_comparator(lhs, rhs) == lhs.size < rhs.size

(* std::sort(begin, end, freed_size_comparator()): every arrangement that  *)
(* is ordered by the comparator; the order of equal sizes is unspecified.  *)
RECURSIVE SortBySize(_)
SortBySize(s) ==
    IF Len(s) <= 1 THEN {s}
    ELSE LET firsts == {i \in 1..Len(s) :
                          \A j \in 1..Len(s) :
                             ~freed_size_comparator(s[j], s[i])}
         IN  UNION {{<<s[i]>> \o t : t \in SortBySize(RemoveAt(s, i))} :
                    i \in firsts}

----------------------------------------------------------------------------
(* The arena's members, as one record the member functions transform.      *)

Arena == [regions       |-> regions,
          linbufres_    |-> linbufres_,
          free_list_    |-> free_list_,
          spare         |-> spare,
          total_used    |-> total_used,
          total_size    |-> total_size,
          total_regions |-> total_regions,
          allocations   |-> allocations]

(* Members before the constructor body runs (default member initialisers). *)
Unconstructed == [regions       |-> <<>>,
                  linbufres_    |-> [buffer |-> 0, length |-> 0, count |-> 0],
                  free_list_    |-> <<>>,
                  spare         |-> <<>>,
                  total_used    |-> 0,
                  total_size    |-> 0,
                  total_regions |-> 0,
                  allocations   |-> 0]
(* size_t arithmetic.  An integer stands for the size_t congruent to it    *)
(* modulo 2^64, a negative one for a value of 2^63 or more, so that +      *)
(* and - are those of the integers and wrap as the program's do; the       *)
(* order of two size_t is the unsigned one.                                *)
size_t_max == -1

size_t_gt(a, b) == IF (a < 0) = (b < 0) THEN a > b ELSE a < 0

(* do_allocate that moves count_ past the adjustment as well, the check    *)
(* staying as it is.                                                       *)
linear_do_allocate_skip_adjustment(lb, bytes, alignment) ==
    IF bytes = 0 \/ alignment = 0
    THEN [ok |-> FALSE, ptr |-> 0, lb |-> lb]
    ELSE LET address    == lb.buffer
             adjustment == calc_fwd_adjust(address + lb.count, alignment)
             old_count  == lb.count + adjustment
             new_count  == lb.count + bytes
         IN  IF size_t_gt(new_count, lb.length)
             THEN [ok |-> FALSE, ptr |-> 0, lb |-> lb]
             ELSE [ok |-> TRUE, ptr |-> address + old_count,
                   lb |-> [lb EXCEPT !.count = old_count + bytes]]

(* linear_buffer_resource::do_allocate on the record lb.  new_count is the *)
(* size_t sum, compared as size_t.                                         *)
linear_do_allocate(lb, bytes, alignment) ==
    IF bytes = 0 \/ alignment = 0
    THEN [ok |-> FALSE, ptr |-> 0, lb |-> lb]
    ELSE LET address    == lb.buffer
             adjustment == calc_fwd_adjust(address + lb.count, alignment)
             old_count  == lb.count + adjustment
             new_count  == lb.count + bytes
         IN  IF size_t_gt(new_count, lb.length)
             THEN [ok |-> FALSE, ptr |-> 0, lb |-> lb]
             ELSE [ok |-> TRUE, ptr |-> address + old_count,
                   lb |-> [lb EXCEPT !.count = new_count]]

(* Drop the never-written (zero) slots at the far end of the raw storage.  *)
RECURSIVE TrimZero(_)
TrimZero(s) ==
    IF s = <<>> THEN s
    ELSE IF s[Len(s)] = Zero THEN TrimZero(SubSeq(s, 1, Len(s) - 1))
    ELSE s

(* std::pmr::vector<freed>::insert(begin() + (i-1), v); push_back is       *)
(* insert at end().  A full vector asks its resource for a block of twice  *)
(* the capacity before it moves anything; the embedded linear resource     *)
(* throws bad_alloc, which leaves the vector as it was.                    *)
vector_insert(a, i, v) ==
    IF Len(a.free_list_) < k_free_list_size
    THEN [ok |-> TRUE,
          a  |-> [a EXCEPT !.free_list_ = InsertAt(a.free_list_, i, v),
                           !.spare = IF a.spare = <<>> THEN <<>>
                                     ELSE Tail(a.spare)]]
    ELSE LET r == linear_do_allocate(a.linbufres_,
                      2 * k_free_list_size * sizeof_freed, alignof_freed)
         IN  IF r.ok
             THEN [ok |-> TRUE,
                   a  |-> [a EXCEPT !.free_list_ = InsertAt(a.free_list_, i, v),
                                    !.spare = <<>>,
                                    !.linbufres_ = r.lb]]
             ELSE [ok |-> FALSE, a |-> a]

(* vector::erase(begin() + (i-1)) for an element of the vector: the tail   *)
(* moves down and the slot of the old last element keeps its bytes.        *)
vector_erase(a, i) ==
    [a EXCEPT !.free_list_ = RemoveAt(a.free_list_, i),
              !.spare = <<a.free_list_[Len(a.free_list_)]>> \o a.spare]

(* vmem_acquire(region**, size_t) that forgets to count the header.        *)
vmem_acquire_region_no_header(a, base) ==
    [a EXCEPT !.regions = Append(a.regions, base),
              !.total_regions = a.total_regions + 1]

(* vmem_acquire(region**, size_t) when mmap returns base.                  *)
vmem_acquire_region(a, base) ==
    [a EXCEPT !.regions = Append(a.regions, base),
              !.total_used = a.total_used + sizeof_region,
              !.total_regions = a.total_regions + 1]

(* The loop over first_->next in vmem_init_free_blocks, from region k on.  *)
RECURSIVE PushRegionBlocks(_, _)
PushRegionBlocks(r, k) ==
    IF ~r.ok \/ k > Len(r.a.regions) THEN r
    ELSE PushRegionBlocks(
            vector_insert(r.a, Len(r.a.free_list_) + 1,
                          [size |-> k_max_alloc_size,
                           addr |-> r.a.regions[k] + sizeof_region]),
            k + 1)

(* vmem_init_free_blocks that does not count the free list's own storage   *)
(* as an allocation.                                                       *)
vmem_init_free_blocks_uncounted(a) ==
    LET begin   == a.regions[1] + sizeof_region
        length  == k_free_list_size * sizeof_freed
        lb      == [buffer |-> begin, length |-> length, count |-> 0]
        reserve == linear_do_allocate(lb, k_free_list_size * sizeof_freed,
                                      alignof_freed)
        a1      == [a EXCEPT !.linbufres_ = reserve.lb,
                             !.total_used = a.total_used + length]
        a2      == [a1 EXCEPT !.free_list_ =
                                 <<[size |-> k_max_alloc_size - length,
                                    addr |-> begin + length]>>]
    IN  IF ~reserve.ok THEN [ok |-> FALSE, a |-> a1]
        ELSE PushRegionBlocks([ok |-> TRUE, a |-> a2], 2)

vmem_init_free_blocks(a) ==
    LET begin   == a.regions[1] + sizeof_region
        length  == k_free_list_size * sizeof_freed
        lb      == [buffer |-> begin, length |-> length, count |-> 0]
        reserve == linear_do_allocate(lb, k_free_list_size * sizeof_freed,
                                      alignof_freed)
        a1      == [a EXCEPT !.linbufres_ = reserve.lb,
                             !.total_used = a.total_used + length]
        a2      == [a1 EXCEPT !.free_list_ =
                                 <<[size |-> k_max_alloc_size - length,
                                    addr |-> begin + length]>>,
                              !.allocations = a1.allocations + 1]
    IN  IF ~reserve.ok THEN [ok |-> FALSE, a |-> a1]
        ELSE PushRegionBlocks([ok |-> TRUE, a |-> a2], 2)

(* Number of regions vmem_acquire(size_t) asks for.                        *)
Blocks(capacity) ==
    LET remain == capacity % k_regsize
        res    == capacity \div k_regsize
    IN  IF remain /= 0 THEN res + 1 ELSE res

RECURSIVE AcquireAll(_, _, _)
AcquireAll(a, bases, k) ==
    IF k > Len(bases) THEN a
    ELSE AcquireAll(vmem_acquire_region(a, bases[k]), bases, k + 1)

(* vmem_acquire(size_t) that sizes the regions without their headers.     *)
vmem_acquire_usable_size(a, capacity, bases) ==
    LET blocks == Blocks(capacity)
        a1     == AcquireAll(a, bases, 1)
        r      == vmem_init_free_blocks(a1)
    IN  IF Len(bases) < blocks THEN [ok |-> FALSE, a |-> a1]
        ELSE IF r.ok
        THEN [ok |-> TRUE,
              a  |-> [r.a EXCEPT !.total_size = blocks * k_max_alloc_size]]
        ELSE r

(* vmem_acquire(size_t capacity), the mappings landing at bases.  Fewer    *)
(* bases than blocks: the mmap after the last of them fails and            *)
(* vmem_acquire(region**, size_t) throws bad_alloc out of the loop.        *)
vmem_acquire(a, capacity, bases) ==
    LET blocks == Blocks(capacity)
        a1     == AcquireAll(a, bases, 1)
        r      == vmem_init_free_blocks(a1)
    IN  IF Len(bases) < blocks THEN [ok |-> FALSE, a |-> a1]
        ELSE IF r.ok
        THEN [ok |-> TRUE, a |-> [r.a EXCEPT !.total_size = blocks * k_regsize]]
        ELSE r

----------------------------------------------------------------------------
(* Release.                                                                *)

(* ::munmap(addr, length) on the mappings mp: the pages of                 *)
(* [addr, addr + length) go, what a mapping has outside them stays.        *)
munmap(mp, addr, length) ==
    LET len == ((length + PageSize - 1) \div PageSize) * PageSize
        end == addr + len
        rest(m) ==
            IF m.base + m.size <= addr \/ end <= m.base THEN {m}
            ELSE (IF m.base < addr
                  THEN {[base |-> m.base, size |-> addr - m.base]} ELSE {})
                 \cup
                 (IF end < m.base + m.size
                  THEN {[base |-> end, size |-> m.base + m.size - end]}
                  ELSE {})
    IN  UNION {rest(m) : m \in mp}

(* vmem_release that unmaps a region before the regions behind it.        *)
RECURSIVE vmem_release_head_first(_, _)
vmem_release_head_first(st, k) ==
    LET addr == st.a.regions[k]
        st1  == [a        |-> st.a,
                 mapped   |-> munmap(st.mapped, addr, k_max_alloc_size),
                 released |-> Append(st.released, addr)]
        st2  == IF k < Len(st.a.regions)
                THEN vmem_release_head_first(st1, k + 1) ELSE st1
    IN  [st2 EXCEPT !.a = [st2.a EXCEPT
                              !.total_used = 0,
                              !.total_size = 0,
                              !.regions = SubSeq(st2.a.regions, 1, k - 1)]]

(* vmem_release(pp_region) called on the link to region k of the chain,   *)
(* with st the record [a, mapped, released].                              *)
RECURSIVE vmem_release(_, _)
vmem_release(st, k) ==
    LET st1  == IF k < Len(st.a.regions) THEN vmem_release(st, k + 1) ELSE st
        addr == st1.a.regions[k]
    IN  [a        |-> [st1.a EXCEPT !.total_used = 0,
                                    !.total_size = 0,
                                    !.regions = SubSeq(st1.a.regions, 1, k - 1)],
         mapped   |-> munmap(st1.mapped, addr, k_max_alloc_size),
         released |-> Append(st1.released, addr)]

----------------------------------------------------------------------------
(* Allocation.                                                             *)

(* The while loop of vmem_find_free_block: itr is the position reached     *)
(* (Len + 1 is end()) and to_allocate the running total.                   *)
RECURSIVE FindLoop(_, _, _, _, _)
FindLoop(fl, itr, to_allocate, bytes, alignment) ==
    IF itr > Len(fl)
    THEN [itr |-> itr, to_allocate |-> to_allocate]
    ELSE LET adjustment == calc_fwd_adjust(fl[itr].addr, alignment)
             total      == to_allocate + adjustment
             fits_in_current == bytes < fl[itr].size
             next_is_the_end == itr + 1 > Len(fl)
             next_is_better  == ~next_is_the_end
                                /\ fl[itr].size < fl[itr + 1].size
         IN  IF fl[itr].size = total
             THEN [itr |-> itr, to_allocate |-> total]
             ELSE IF fits_in_current /\ ~next_is_better
             THEN [itr |-> itr, to_allocate |-> total]
             ELSE FindLoop(fl, itr + 1, total, bytes, alignment)

(* vmem_find_free_block that charges the request before it finds out that  *)
(* no block can take it.                                                   *)
vmem_find_free_block_charge_first(a, bytes, alignment) ==
    LET adjustment  == 0
        found       == FindLoop(a.free_list_, 1, bytes, bytes, alignment)
        itr         == found.itr
        to_allocate == found.to_allocate
        charged     == [a EXCEPT !.total_used = a.total_used + to_allocate,
                                 !.allocations = a.allocations + 1]
    IN  IF itr > Len(a.free_list_)
        THEN {[throws |-> TRUE, ptr |-> 0, a |-> charged]}
        ELSE LET e      == a.free_list_[itr]
                 result == e.addr
                 shrunk == ReplaceAt(a.free_list_, itr,
                              [size |-> e.size - to_allocate,
                               addr |-> e.addr + to_allocate])
                 lists  == IF e.size > to_allocate
                           THEN {[charged EXCEPT !.free_list_ = t] :
                                    t \in SortBySize(shrunk)}
                           ELSE {vector_erase(charged, itr)}
             IN  {[throws |-> FALSE, ptr |-> result + adjustment, a |-> b] :
                  b \in lists}

(* vmem_find_free_block: the set of results, one per outcome of std::sort. *)
(* The adjustment added to the result is the outer variable, which the     *)
(* loop's own const shadows and never assigns.                             *)
vmem_find_free_block(a, bytes, alignment) ==
    LET adjustment  == 0
        found       == FindLoop(a.free_list_, 1, bytes, bytes, alignment)
        itr         == found.itr
        to_allocate == found.to_allocate
    IN  IF itr > Len(a.free_list_)
        THEN {[throws |-> TRUE, ptr |-> 0, a |-> a]}
        ELSE LET e      == a.free_list_[itr]
                 result == e.addr
                 shrunk == ReplaceAt(a.free_list_, itr,
                              [size |-> e.size - to_allocate,
                               addr |-> e.addr + to_allocate])
                 lists  == IF e.size > to_allocate
                           THEN {[a EXCEPT !.free_list_ = t] :
                                    t \in SortBySize(shrunk)}
                           ELSE {vector_erase(a, itr)}
             IN  {[throws |-> FALSE,
                   ptr    |-> result + adjustment,
                   a      |-> [b EXCEPT !.total_used = b.total_used + to_allocate,
                                        !.allocations = b.allocations + 1]] :
                  b \in lists}

(* Where a further mmap can land; 0 stands for MAP_FAILED.                 *)
FreshBases(a) ==
    {0} \cup (BaseAddrs \ {a.regions[i] : i \in 1..Len(a.regions)})

(* vmem_allocate_region.  vmem_find_free_block throws when it finds no     *)
(* block, so the code after the first call runs only for a null result.    *)
vmem_allocate_region(a, bytes, alignment) ==
    LET first == vmem_find_free_block(a, bytes, alignment)
        grow(r, base) ==
            LET size == k_max_alloc_size + sizeof_region
                a1   == vmem_acquire_region(r.a, base)
                a2   == [a1 EXCEPT !.total_size = a1.total_size + size]
                ins  == vector_insert(a2, Len(a2.free_list_) + 1,
                            [size |-> k_max_alloc_size,
                             addr |-> base + sizeof_region])
            IN  IF base = 0 THEN {[throws |-> TRUE, ptr |-> 0, a |-> r.a]}
                ELSE IF ins.ok
                THEN vmem_find_free_block(ins.a, bytes, alignment)
                ELSE {[throws |-> TRUE, ptr |-> 0, a |-> a2]}
    IN  UNION {IF r.throws \/ r.ptr /= 0 THEN {r}
               ELSE UNION {grow(r, base) : base \in FreshBases(r.a)} :
               r \in first}

----------------------------------------------------------------------------
(* Deallocation.                                                           *)

(* What the build does when the code reads past end() of the vector:       *)
(* "raw" reads the bytes the storage holds there, "abort" stops the        *)
(* process (checked iterators, a sanitizer, a fault).                      *)
PastTheEnd == {"raw", "abort"}

(* Bytes of the user's memory a read beyond the vector's capacity can see. *)
UserBytes == {Zero, [size |-> 1, addr |-> 1]}

(* The slot at position k of the vector's storage, k counted from          *)
(* begin() as 1; beyond the reserved capacity the bytes are the user's, g. *)
Slot(a, k, g) ==
    IF k <= Len(a.free_list_) THEN a.free_list_[k]
    ELSE IF k > k_free_list_size THEN g
    ELSE IF k - Len(a.free_list_) <= Len(a.spare)
         THEN a.spare[k - Len(a.free_list_)]
    ELSE Zero

(* The storage with slot k holding v, and the vector ending after n slots. *)
Restore(a, k, v, n) ==
    LET top == IF k > Len(a.free_list_) + Len(a.spare)
               THEN k ELSE Len(a.free_list_) + Len(a.spare)
        raw == [i \in 1..top |-> IF i = k THEN v ELSE Slot(a, i, Zero)]
    IN  [a EXCEPT !.free_list_ = SubSeq(raw, 1, n),
                  !.spare = TrimZero(SubSeq(raw, n + 1, top))]

(* The first position whose entry starts at or after block_end.            *)
RECURSIVE IndexLoop(_, _, _)
IndexLoop(fl, index, block_end) ==
    IF index > Len(fl) THEN index
    ELSE IF block_end <= fl[index].addr THEN index
    ELSE IndexLoop(fl, index + 1, block_end)

(* No entry read at MERGE_BLOCKS, the vector holding at most one.          *)
NoRead == [index |-> 0, size |-> 0]

(* From the label MERGE_BLOCKS to the end of vmem_deallocate_region, for   *)
(* one outcome ub of a read past end() and one content g of the user's     *)
(* bytes.  index is the position begin() + index of the code, from 1.      *)
(* at is the last position the step reads, next = begin() + index + 1,     *)
(* counted from 1, with the size of the vector at that moment.             *)
MergeBlocksWith(a, index, bytes, ub, g) ==
    LET n      == Len(a.free_list_)
        inside == index + 1 <= n
        curr   == Slot(a, index, g)
        next   == Slot(a, index + 1, g)
        touch  == curr.addr + curr.size = next.addr
        merged == [size |-> curr.size + next.size, addr |-> curr.addr]
        a1     == IF ~touch THEN a
                  ELSE IF inside
                  THEN vector_erase(
                          [a EXCEPT !.free_list_ =
                              ReplaceAt(a.free_list_, index, merged)],
                          index + 1)
                  ELSE IF index <= k_free_list_size
                  THEN Restore(a, index, merged, n - 1)
                  ELSE Restore(a, n, a.free_list_[n], n - 1)
        done(b) == [b EXCEPT !.allocations = b.allocations - 1,
                             !.total_used = b.total_used - bytes]
        at     == [index |-> index + 1, size |-> n]
    IN  IF 1 < n
        THEN IF ~inside /\ ub = "abort"
             THEN {[aborted |-> TRUE, throws |-> FALSE, a |-> a, at |-> at]}
             ELSE {[aborted |-> FALSE, throws |-> FALSE,
                    a |-> done([a1 EXCEPT !.free_list_ = t]), at |-> at] :
                   t \in SortBySize(a1.free_list_)}
        ELSE {[aborted |-> FALSE, throws |-> FALSE, a |-> done(a),
               at |-> NoRead]}

(* All outcomes of the code from MERGE_BLOCKS on: the build and the user's *)
(* bytes matter only when the code reads past end(), respectively past     *)
(* the reserved capacity.                                                  *)
MergeBlocks(a, index, bytes) ==
    LET n == Len(a.free_list_)
    IN  IF 1 < n /\ index + 1 > n
        THEN UNION {MergeBlocksWith(a, index, bytes, ub, g) :
                       ub \in PastTheEnd,
                       g \in IF index + 1 > k_free_list_size
                             THEN UserBytes ELSE {Zero}}
        ELSE MergeBlocksWith(a, index, bytes, "raw", Zero)

vmem_deallocate_region(a, ptr, nbytes, alignment) ==
    LET pointer     == ptr
        adjustment  == calc_fwd_adjust(pointer, alignment)
        bytes       == nbytes + adjustment
        block_start == pointer - adjustment
        block_end   == block_start + bytes
        index       == IndexLoop(a.free_list_, 1, block_end)
        block       == [size |-> bytes, addr |-> block_start]
        prev        == a.free_list_[index - 1]
        ins         == vector_insert(a, index, block)
    IN  IF index = 1
        THEN IF ins.ok THEN MergeBlocks(ins.a, index, bytes)
             ELSE {[aborted |-> FALSE, throws |-> TRUE, a |-> a,
                    at |-> NoRead]}
        ELSE IF prev.addr + prev.size = block_start
        THEN MergeBlocks(
                [a EXCEPT !.free_list_ =
                    ReplaceAt(a.free_list_, index - 1,
                              [prev EXCEPT !.size = prev.size + bytes])],
                index, bytes)
        ELSE IF ins.ok THEN MergeBlocks(ins.a, index, bytes)
             ELSE {[aborted |-> FALSE, throws |-> TRUE, a |-> a,
                    at |-> NoRead]}

----------------------------------------------------------------------------
(* The program: one arena, constructed once, then used by one thread.      *)

(* The record of the last call: its arguments, its result, the arena       *)
(* before it and, for a deallocate that directly follows the allocate      *)
(* whose result it gives back (round), the arena before that allocate;     *)
(* for a deallocate, the last free-list position it read (at).             *)
NoCall == [op |-> "none", capacity |-> 0, bytes |-> 0, alignment |-> 0,
           ptr |-> 0, ok |-> TRUE, pre |-> Unconstructed,
           round |-> FALSE, start |-> Unconstructed, at |-> NoRead]

Idle == [stage |-> 0, before |-> <<>>, blocks |-> <<>>,
         bytes |-> 0, alignment |-> 0]

(* The ways mmap can place n regions; more regions than BaseAddrs holds    *)
(* are laid out back to back.                                              *)
Placements(n) ==
    IF n <= Cardinality(BaseAddrs)
    THEN {s \in [1..n -> BaseAddrs] : \A i, j \in 1..n : s[i] = s[j] => i = j}
    ELSE {[i \in 1..n |-> 268435456 + (i - 1) * k_regsize]}

SetArena(a) ==
    /\ regions' = a.regions
    /\ linbufres_' = a.linbufres_
    /\ free_list_' = a.free_list_
    /\ spare' = a.spare
    /\ total_used' = a.total_used
    /\ total_size' = a.total_size
    /\ total_regions' = a.total_regions
    /\ allocations' = a.allocations

(* Progress through the scenario "allocate three adjacent blocks of equal  *)
(* size, then free the first, the third, the second".                      *)
ScenarioAfterAllocate(sc, pre, p, bytes, alignment) ==
    IF /\ sc.stage \in {1, 2}
       /\ sc.bytes = bytes
       /\ sc.alignment = alignment
       /\ p = sc.blocks[Len(sc.blocks)] + bytes
    THEN [sc EXCEPT !.stage = sc.stage + 1, !.blocks = Append(sc.blocks, p)]
    ELSE [stage |-> 1, before |-> pre.free_list_, blocks |-> <<p>>,
          bytes |-> bytes, alignment |-> alignment]

ScenarioAfterDeallocate(sc, r) ==
    LET want == IF sc.stage = 3 THEN 1 ELSE IF sc.stage = 4 THEN 3 ELSE 2
    IN  IF /\ sc.stage \in {3, 4, 5}
           /\ r = [ptr |-> sc.blocks[want], bytes |-> sc.bytes,
                   alignment |-> sc.alignment]
        THEN [sc EXCEPT !.stage = sc.stage + 1]
        ELSE Idle

(* No second resource yet.                                                 *)
NoOther == [kind |-> "none", a |-> Unconstructed, buffer |-> 0]

(* linear_buffer_resource(): the default member initialisers.              *)
DefaultLinear == [buffer |-> 0, length |-> 0, count |-> 0]

(* The record of the last call on lbr: its arguments, its result, the      *)
(* members and the buffer's bytes before it.                               *)
NoLinearCall == [op |-> "none", bytes |-> 0, alignment |-> 0, ptr |-> 0,
                 ok |-> TRUE, pre |-> DefaultLinear, mem |-> <<>>]

(* A scratch_buffer_resource before a constructor ran: the linear members  *)
(* and upstream_, "none" standing for nullptr.                             *)
DefaultScratch == [buffer |-> 0, length |-> 0, count |-> 0,
                   upstream_ |-> "none"]

NoScratchCall == [op |-> "none", bytes |-> 0, alignment |-> 0, ptr |-> 0,
                  ok |-> TRUE, pre |-> DefaultScratch, local |-> TRUE,
                  arena |-> Unconstructed]

(* The members of a vmem before its constructor ran; 0 is nullptr and a    *)
(* region pointer is the position of the region in regs.  stride is how    *)
(* the kernel lays out the mappings of this run.                           *)
NoVmem == [phase |-> "none", first_ |-> 0, curr_ |-> 0, total_used_ |-> 0,
           total_size_ |-> 0, regs |-> <<>>, stride |-> 0]

(* The record of the last call on the vmem, n counting its allocate calls. *)
NoVmemCall == [op |-> "none", size |-> 0, alignment |-> 0, ptr |-> 0,
               ok |-> TRUE, pre |-> NoVmem, n |-> 0]

(* The mappings mmap made at bases.                                        *)
MappingsAt(bases) ==
    {[base |-> bases[i], size |-> k_regsize] : i \in 1..Len(bases)}

Init ==
    /\ phase = "none"
    /\ regions = Unconstructed.regions
    /\ linbufres_ = Unconstructed.linbufres_
    /\ free_list_ = Unconstructed.free_list_
    /\ spare = Unconstructed.spare
    /\ total_used = Unconstructed.total_used
    /\ total_size = Unconstructed.total_size
    /\ total_regions = Unconstructed.total_regions
    /\ allocations = Unconstructed.allocations
    /\ live = EmptyBag
    /\ last = NoCall
    /\ scenario = Idle
    /\ nallocs = 0
    /\ mapped = {}
    /\ released = <<>>
    /\ other = NoOther
    /\ lbr = DefaultLinear
    /\ llast = NoLinearCall
    /\ lmem = <<>>
    /\ lspans = <<>>
    /\ sbr = DefaultScratch
    /\ up = <<>>
    /\ slast = NoScratchCall
    /\ syscalls = <<>>
    /\ vm = NoVmem
    /\ vlast = NoVmemCall
    /\ vspans = <<>>

(* What the kernel answers to the mmap calls made for one region, call by  *)
(* call; it goes on answering as it last did.                              *)
Retriable == {"ENOMEM", "EOVERFLOW", "EAGAIN"}

Answer(answers, i) ==
    IF i <= Len(answers) THEN answers[i] ELSE answers[Len(answers)]

(* The POSIX loop of vmem_acquire(pp_region, capacity) that takes every    *)
(* errno for a reason to ask for less.                                     *)
RECURSIVE mmap_loop_retry_all(_, _, _, _, _)
mmap_loop_retry_all(capacity, min, answers, i, log) ==
    IF capacity < min THEN [ok |-> FALSE, size |-> 0, log |-> log]
    ELSE LET res  == Answer(answers, i)
             log1 == Append(log, [length |-> capacity, result |-> res])
         IN  IF res = "ok"
             THEN [ok |-> TRUE, size |-> capacity, log |-> log1]
             ELSE mmap_loop_retry_all(capacity \div 2, min, answers, i + 1,
                                      log1)

(* The POSIX loop of vmem_acquire(pp_region, capacity), at its i-th mmap:  *)
(* the mapping's size if one was made, and the calls in order.             *)
RECURSIVE mmap_loop(_, _, _, _, _)
mmap_loop(capacity, min, answers, i, log) ==
    IF capacity < min THEN [ok |-> FALSE, size |-> 0, log |-> log]
    ELSE LET res  == Answer(answers, i)
             log1 == Append(log, [length |-> capacity, result |-> res])
         IN  IF res = "ok"
             THEN [ok |-> TRUE, size |-> capacity, log |-> log1]
             ELSE IF res \notin Retriable
             THEN [ok |-> FALSE, size |-> 0, log |-> log1]
             ELSE mmap_loop(capacity \div 2, min, answers, i + 1, log1)

(* The mapping part of vmem_acquire(pp_region, capacity).                  *)
vmem_acquire_mmap(capacity, answers) ==
    LET res == capacity \div 16
        min == IF res < 1 THEN capacity ELSE res
    IN  mmap_loop(capacity, min, answers, 1, <<>>)

(* The kernel maps at once, or is out of memory for good.                  *)
AtOnceOrNever == {<<"ok">>, <<"ENOMEM">>}

(* The mmap calls of regions 1..n in order; answers[k] is for region k.    *)
RECURSIVE CallsOf(_, _)
CallsOf(answers, n) ==
    IF n = 0 THEN <<>>
    ELSE CallsOf(answers, n - 1)
         \o vmem_acquire_mmap(k_regsize, answers[n]).log

(* arena_memory_resource(capacity) for a capacity among capacities, the    *)
(* kernel answering each region's mmap calls as one of kernel: the first   *)
(* n regions get mapped, the next one, if any is left, does not.  An       *)
(* exception leaves the constructor, so no destructor runs for the object. *)
ConstructFrom(capacities, kernel) ==
    /\ phase = "none"
    /\ \E capacity \in capacities :
       LET blocks == Blocks(capacity * mebibytes)
           good   == {k \in kernel : vmem_acquire_mmap(k_regsize, k).ok}
       IN
       \E n \in 0..blocks :
       \E bases \in Placements(n) :
       \E mapping \in [1..n -> good] :
       \E failing \in IF n < blocks THEN {<<k>> : k \in kernel \ good}
                                    ELSE {<<>>} :
          /\ LET r == vmem_acquire(Arena, capacity * mebibytes, bases)
                 answers == mapping \o failing
             IN  /\ SetArena(r.a)
                 /\ phase' = IF r.ok THEN "live" ELSE "failed"
                 /\ mapped' =
                       {[base |-> bases[k],
                         size |-> vmem_acquire_mmap(k_regsize, answers[k]).size] :
                        k \in 1..n}
                 /\ syscalls' = CallsOf(answers, Len(answers))
                 /\ last' = [NoCall EXCEPT !.op = "construct",
                                           !.capacity = capacity,
                                           !.ok = r.ok,
                                           !.pre = Arena]
    /\ UNCHANGED <<live, scenario, nallocs, released, other, linear_vars,
                   scratch_vars, vmem_vars>>

ConstructWith(capacities) == ConstructFrom(capacities, AtOnceOrNever)

Construct == ConstructWith(1..MaxCapacity)

(* allocate(bytes, alignment) -> do_allocate -> vmem_allocate_region, for  *)
(* arguments among sizes and alignments, at most limit calls.              *)
AllocateWith(sizes, alignments, limit) ==
    /\ phase = "live"
    /\ nallocs < limit
    /\ \E bytes \in sizes, alignment \in alignments :
       \E r \in vmem_allocate_region(Arena, bytes, alignment) :
          /\ SetArena(r.a)
          /\ live' = IF r.throws THEN live
                     ELSE live (+) SetToBag({[ptr |-> r.ptr, bytes |-> bytes,
                                              alignment |-> alignment]})
          /\ last' = [NoCall EXCEPT !.op = "allocate",
                                    !.bytes = bytes,
                                    !.alignment = alignment,
                                    !.ptr = r.ptr,
                                    !.ok = ~r.throws,
                                    !.pre = Arena]
          /\ scenario' = IF r.throws THEN Idle
                         ELSE ScenarioAfterAllocate(scenario, Arena, r.ptr,
                                                    bytes, alignment)
    /\ nallocs' = nallocs + 1
    /\ UNCHANGED <<phase, mapped, released, other, linear_vars, scratch_vars,
                   syscalls, vmem_vars>>

Allocate == AllocateWith(ByteSizes, Alignments, MaxAllocs)

(* deallocate(ptr, bytes, alignment) of a live allocation with the         *)
(* arguments it was allocated with -> vmem_deallocate_region               *)
Deallocate ==
    /\ phase = "live"
    /\ \E d \in BagToSet(live) :
       \E r \in vmem_deallocate_region(Arena, d.ptr, d.bytes, d.alignment) :
       LET round == /\ last.op = "allocate" /\ last.ok
                    /\ d = [ptr |-> last.ptr, bytes |-> last.bytes,
                            alignment |-> last.alignment]
       IN
          /\ SetArena(r.a)
          /\ phase' = IF r.aborted THEN "aborted" ELSE phase
          /\ live' = IF r.throws THEN live ELSE live (-) SetToBag({d})
          /\ last' = [NoCall EXCEPT !.op = "deallocate",
                                    !.bytes = d.bytes,
                                    !.alignment = d.alignment,
                                    !.ptr = d.ptr,
                                    !.ok = ~r.aborted /\ ~r.throws,
                                    !.pre = Arena,
                                    !.at = r.at,
                                    !.round = round,
                                    !.start = IF round THEN last.pre
                                              ELSE Unconstructed]
          /\ scenario' = IF r.aborted \/ r.throws THEN Idle
                         ELSE ScenarioAfterDeallocate(scenario, d)
    /\ UNCHANGED <<nallocs, mapped, released, other, linear_vars,
                   scratch_vars, syscalls, vmem_vars>>

(* ~arena_memory_resource(); the members are destroyed after the body.     *)
Destroy ==
    /\ phase = "live"
    /\ LET st == IF regions /= <<>>
                 THEN vmem_release([a |-> Arena, mapped |-> mapped,
                                    released |-> released], 1)
                 ELSE [a |-> Arena, mapped |-> mapped, released |-> released]
       IN  /\ SetArena([st.a EXCEPT !.free_list_ = <<>>, !.spare = <<>>])
           /\ mapped' = st.mapped
           /\ released' = st.released
    /\ phase' = "destroyed"
    /\ live' = EmptyBag
    /\ scenario' = Idle
    /\ last' = [NoCall EXCEPT !.op = "destroy",
                              !.pre = [Arena EXCEPT !.free_list_ = <<>>,
                                                    !.spare = <<>>]]
    /\ UNCHANGED <<nallocs, other, linear_vars, scratch_vars, syscalls,
                   vmem_vars>>

Next == Construct \/ Allocate \/ Deallocate \/ Destroy

Spec == Init /\ [][Next]_vars

----------------------------------------------------------------------------
(* The same program called with arguments at the edges of what allocate    *)
(* accepts: no bytes at all, and one byte short of the block that is left  *)
(* of a fresh region once a single byte has been handed out.               *)

EdgeByteSizes ==
    {0, 1, k_max_alloc_size - k_free_list_size * sizeof_freed - 2}

AllocateEdge == AllocateWith(EdgeByteSizes, Alignments, MaxEdgeAllocs)

NextEdge == Construct \/ AllocateEdge \/ Deallocate \/ Destroy

SpecEdge == Init /\ [][NextEdge]_vars

----------------------------------------------------------------------------
(* The same program constructed with the default capacity or with the      *)
(* smallest capacity that takes one region more than the free list was     *)
(* reserved for.                                                           *)

OverfullCapacity == (k_free_list_size * k_regsize) \div mebibytes + 1

ConstructLarge == ConstructWith({k_default_capacity, OverfullCapacity})

NextLarge == ConstructLarge \/ Allocate \/ Deallocate \/ Destroy

SpecLarge == Init /\ [][NextLarge]_vars

----------------------------------------------------------------------------
(* The arena next to a second memory resource it can be compared with.     *)

(* The first_ member: 0 stands for nullptr.                                *)
first_(a) == IF a.regions = <<>> THEN 0 ELSE a.regions[1]

(* do_is_equal that also wants the counters to agree.                      *)
do_is_equal_with_counters(a, o) ==
    LET casted == o.kind \in {"copy", "arena"}
    IN  /\ casted
        /\ first_(a) = first_(o.a)
        /\ a.total_used = o.a.total_used

(* do_is_equal: the dynamic_cast succeeds for an arena, copied or not.     *)
do_is_equal(a, o) ==
    LET casted == o.kind \in {"copy", "arena"}
    IN  casted /\ first_(a) = first_(o.a)

(* Everything the arena under test owns.                                   *)
arena_vars == <<phase, regions, linbufres_, free_list_, spare, total_used,
                total_size, total_regions, allocations, live, last, scenario,
                nallocs, released, syscalls>>

(* The implicit copy constructor: every member is copied, the vector's     *)
(* elements into storage of its own.                                       *)
CopyArena ==
    /\ phase = "live"
    /\ other.kind = "none"
    /\ other' = [kind |-> "copy", a |-> [Arena EXCEPT !.spare = <<>>],
                 buffer |-> 0]
    /\ UNCHANGED <<arena_vars, mapped, linear_vars, scratch_vars,
                   vmem_vars>>

(* A second arena of the default capacity, constructed on its own while    *)
(* the first one lives: mmap places it where nothing is mapped.            *)
ConstructOther ==
    /\ phase = "live"
    /\ other.kind = "none"
    /\ \E b \in BaseAddrs \ {m.base : m \in mapped} :
          LET r == vmem_acquire(Unconstructed, k_default_capacity * mebibytes,
                                <<b>>)
          IN  /\ other' = [kind |-> "arena", a |-> r.a, buffer |-> 0]
              /\ mapped' = mapped \cup MappingsAt(<<b>>)
    /\ UNCHANGED <<arena_vars, linear_vars, scratch_vars, vmem_vars>>

(* A linear_buffer_resource over memory of the arena's first region.       *)
OtherLinear ==
    /\ phase = "live"
    /\ other.kind = "none"
    /\ \E b \in {regions[1], regions[1] + sizeof_region} :
          other' = [kind |-> "linear", a |-> Unconstructed, buffer |-> b]
    /\ UNCHANGED <<arena_vars, mapped, linear_vars, scratch_vars,
                   vmem_vars>>

AllocateEqual == AllocateWith(ByteSizes, Alignments, MaxEqualAllocs)

(* What a destructor can meet when the region first_ points to was         *)
(* unmapped by the destructor of another arena object: reading the         *)
(* region's next link faults, or, the address being mapped anew since, it  *)
(* reads the null of a fresh page.                                         *)
Unmapped == {"fault", "zero"}

(* The first region of arena a is still mapped.                            *)
FirstMapped(a, mp) == \E m \in mp : m.base = first_(a)

(* The destructor of arena a, whose chain is the one in the regions        *)
(* themselves, for the outcome ub where the first region is gone: the set  *)
(* of records [a, mapped, released, aborted].                              *)
destructor(a, mp, rel, ub) ==
    LET st == [a |-> a, mapped |-> mp, released |-> rel]
    IN  IF first_(a) = 0 THEN st @@ [aborted |-> FALSE]
        ELSE IF FirstMapped(a, mp)
        THEN vmem_release(st, 1) @@ [aborted |-> FALSE]
        ELSE IF ub = "fault" THEN st @@ [aborted |-> TRUE]
        ELSE [a        |-> [a EXCEPT !.total_used = 0, !.total_size = 0,
                                     !.regions = <<>>],
              mapped   |-> munmap(mp, first_(a), k_max_alloc_size),
              released |-> Append(rel, first_(a)),
              aborted  |-> FALSE]

(* The destructor of the second arena.  A copy shares the chain of the     *)
(* arena it was copied from, which is left with regions that are gone.     *)
DestroyOther ==
    /\ other.kind \in {"copy", "arena"}
    /\ phase \in {"live", "destroyed"}
    /\ \E ub \in Unmapped :
       LET r == destructor(other.a, mapped, released, ub)
       IN  /\ other' = [other EXCEPT !.kind = IF r.aborted THEN "aborted"
                                              ELSE "destroyed",
                                     !.a = r.a]
           /\ mapped' = r.mapped
           /\ released' = r.released
           /\ phase' = IF phase = "live" /\ other.kind = "copy"
                       THEN "dangling" ELSE phase
    /\ UNCHANGED <<regions, linbufres_, free_list_, spare, total_used,
                   total_size, total_regions, allocations, live, last,
                   scenario, nallocs, syscalls, linear_vars, scratch_vars,
                   vmem_vars>>

(* The destructor of the arena after the destructor of its copy.           *)
DestroyDangling ==
    /\ phase = "dangling"
    /\ \E ub \in Unmapped :
       LET r == destructor(Arena, mapped, released, ub)
       IN  /\ SetArena([r.a EXCEPT !.free_list_ = <<>>, !.spare = <<>>])
           /\ mapped' = r.mapped
           /\ released' = r.released
           /\ phase' = IF r.aborted THEN "aborted" ELSE "destroyed"
    /\ live' = EmptyBag
    /\ scenario' = Idle
    /\ last' = [NoCall EXCEPT !.op = "destroy",
                              !.pre = [Arena EXCEPT !.free_list_ = <<>>,
                                                    !.spare = <<>>]]
    /\ UNCHANGED <<nallocs, other, linear_vars, scratch_vars, syscalls,
                   vmem_vars>>

NextEqual ==
    \/ Construct \/ AllocateEqual \/ Deallocate \/ Destroy
    \/ CopyArena \/ ConstructOther \/ OtherLinear
    \/ DestroyOther \/ DestroyDangling

SpecEqual == Init /\ [][NextEqual]_vars

----------------------------------------------------------------------------
(* A linear_buffer_resource used on its own, over a caller's buffer.       *)

(* Buffers the caller may pass: one aligned for every type, one that       *)
(* starts at an odd address.                                               *)
LinearBuffers == {268435456, 268435456 + 3}
LinearLengths == {MaxLinearLength \div 2, MaxLinearLength}
LinearByteSizes == {0, 1, 3, 8}
LinearAlignments == {0, 1, 4, 8}

(* length bytes that all hold v.                                           *)
Filled(length, v) == [i \in 1..length |-> v]

(* What a buffer handed to the resource may hold: zeroes, or the data of   *)
(* its previous use.                                                       *)
Contents(length) == {Filled(length, 0), Filled(length, 2)}

(* reset()                                                                 *)
linear_reset(lb) == [lb EXCEPT !.count = 0]

(* clear() that forgets the memset.                                        *)
linear_clear_no_memset(lb, mem) ==
    [lb |-> linear_reset(lb), mem |-> mem]

(* clear(): memset(buffer_, 0, length_), then reset().                     *)
linear_clear(lb, mem) ==
    [lb  |-> linear_reset(lb),
     mem |-> [i \in 1..Len(mem) |-> IF i <= lb.length THEN 0 ELSE mem[i]]]

(* do_deallocate that takes back the allocation made last.                 *)
linear_do_deallocate_rewind(lb, ptr, bytes, alignment) ==
    IF ptr + bytes = lb.buffer + lb.count /\ bytes <= lb.count
    THEN [lb EXCEPT !.count = lb.count - bytes]
    ELSE lb

(* do_deallocate: the arguments are named and not used.                    *)
linear_do_deallocate(lb, ptr, bytes, alignment) == lb

(* change_buffer(buffer, length), its asserts holding.                     *)
linear_change_buffer(lb, buffer, length) ==
    [lb EXCEPT !.buffer = buffer, !.length = length]

(* linear_buffer_resource(buffer, length)                                  *)
LinearConstruct ==
    /\ llast.op = "none"
    /\ \E buffer \in LinearBuffers, length \in LinearLengths :
          /\ lbr' = [buffer |-> buffer, length |-> length, count |-> 0]
          /\ lmem' \in Contents(length)
    /\ llast' = [NoLinearCall EXCEPT !.op = "construct"]
    /\ lspans' = <<>>
    /\ UNCHANGED <<arena_vars, mapped, other, scratch_vars, vmem_vars>>

(* The window spans returned last.                                         *)
Latest(spans, window) ==
    IF Len(spans) <= window THEN spans
    ELSE SubSeq(spans, Len(spans) - window + 1, Len(spans))

(* allocate(bytes, alignment) -> do_allocate, bytes drawn from sizes; the  *)
(* spans returned are kept for window calls.                               *)
LinearAllocateWith(sizes, window) ==
    /\ lbr.buffer /= 0
    /\ lbr.length /= 0
    /\ \E bytes \in sizes, alignment \in LinearAlignments :
          LET r == linear_do_allocate(lbr, bytes, alignment)
          IN  /\ lbr' = r.lb
              /\ llast' = [op |-> "allocate", bytes |-> bytes,
                           alignment |-> alignment, ptr |-> r.ptr,
                           ok |-> r.ok, pre |-> lbr, mem |-> lmem]
              /\ lspans' = IF r.ok
                           THEN Latest(Append(lspans, [ptr |-> r.ptr,
                                                       bytes |-> bytes]),
                                       window)
                           ELSE lspans
    /\ UNCHANGED <<arena_vars, mapped, other, lmem, scratch_vars,
                   vmem_vars>>

LinearAllocate == LinearAllocateWith(LinearByteSizes, 0)

(* deallocate(ptr, bytes, alignment) -> do_deallocate, for the allocation  *)
(* made last or for arguments that never came from the resource.           *)
LinearDeallocate ==
    /\ llast.op /= "none"
    /\ \E ptr \in {0, lbr.buffer, llast.ptr},
          bytes \in LinearByteSizes, alignment \in LinearAlignments :
          /\ lbr' = linear_do_deallocate(lbr, ptr, bytes, alignment)
          /\ llast' = [op |-> "deallocate", bytes |-> bytes,
                       alignment |-> alignment, ptr |-> ptr,
                       ok |-> TRUE, pre |-> lbr, mem |-> lmem]
    /\ UNCHANGED <<arena_vars, mapped, other, lmem, lspans, scratch_vars,
                   vmem_vars>>

(* reset()                                                                 *)
LinearReset ==
    /\ llast.op /= "none"
    /\ lbr' = linear_reset(lbr)
    /\ llast' = [NoLinearCall EXCEPT !.op = "reset", !.pre = lbr,
                                     !.mem = lmem]
    /\ lspans' = <<>>
    /\ UNCHANGED <<arena_vars, mapped, other, lmem, scratch_vars,
                   vmem_vars>>

(* clear()                                                                 *)
LinearClear ==
    /\ llast.op /= "none"
    /\ LET r == linear_clear(lbr, lmem)
       IN  /\ lbr' = r.lb
           /\ lmem' = r.mem
    /\ llast' = [NoLinearCall EXCEPT !.op = "clear", !.pre = lbr,
                                     !.mem = lmem]
    /\ lspans' = <<>>
    /\ UNCHANGED <<arena_vars, mapped, other, scratch_vars, vmem_vars>>

(* change_buffer(buffer, length) called by a derived resource with the     *)
(* asserted count_ <= length.                                              *)
LinearChangeBuffer ==
    /\ llast.op /= "none"
    /\ \E buffer \in LinearBuffers, length \in LinearLengths :
          /\ lbr.count <= length
          /\ lbr' = linear_change_buffer(lbr, buffer, length)
          /\ lmem' \in Contents(length)
    /\ llast' = [NoLinearCall EXCEPT !.op = "change_buffer", !.pre = lbr,
                                     !.mem = lmem]
    /\ lspans' = <<>>
    /\ UNCHANGED <<arena_vars, mapped, other, scratch_vars, vmem_vars>>

NextLinear ==
    \/ LinearConstruct \/ LinearAllocate \/ LinearDeallocate
    \/ LinearReset \/ LinearClear \/ LinearChangeBuffer

SpecLinear == Init /\ [][NextLinear]_vars

----------------------------------------------------------------------------
(* The linear resource asked for sizes up to the largest size_t.           *)

WideByteSizes == {1, 8, size_t_max - 7, size_t_max - 3, size_t_max}

LinearAllocateWide == LinearAllocateWith(WideByteSizes, 0)

NextWide == LinearConstruct \/ LinearAllocateWide \/ LinearReset

SpecWide == Init /\ [][NextWide]_vars

----------------------------------------------------------------------------
(* The linear resource with the spans it returned kept.                    *)

LinearAllocateSpans == LinearAllocateWith(LinearByteSizes, MaxLinearSpans)

NextSpans ==
    LinearConstruct \/ LinearAllocateSpans \/ LinearReset \/ LinearClear

SpecSpans == Init /\ [][NextSpans]_vars


----------------------------------------------------------------------------
(* The arena on a kernel that is short of memory: it refuses some mmap     *)
(* calls before it maps, gives up for another reason, or never maps.       *)

Refusals(e, k) == [i \in 1..k |-> e]

PosixKernel ==
    {Refusals(e, k) \o <<end>> :
        e \in Retriable, k \in 0..MaxRefusals, end \in {"ok", "EINVAL"}}
    \cup {<<e>> : e \in Retriable}

ConstructPosix ==
    ConstructFrom({k_default_capacity, 2 * k_default_capacity}, PosixKernel)

AllocatePosix == AllocateWith(ByteSizes, Alignments, MaxPosixAllocs)

NextPosix == ConstructPosix \/ AllocatePosix \/ Deallocate \/ Destroy

SpecPosix == Init /\ [][NextPosix]_vars

----------------------------------------------------------------------------
(* A scratch_buffer_resource used on its own, with or without an upstream  *)
(* resource behind it.                                                     *)

(* What upstream_ may point to: nothing, std::pmr::new_delete_resource(),  *)
(* which supplies any request, or std::pmr::null_memory_resource(), which  *)
(* supplies none.  Both take deallocate(nullptr, ...) without an effect.   *)
Upstreams == {"none", "new_delete", "null"}

(* The linear_buffer_resource part of the scratch resource s.              *)
super(s) == [buffer |-> s.buffer, length |-> s.length, count |-> s.count]

(* try_super_allocate that keeps the count the refused request asked for.  *)
try_super_allocate_keeps_count(s, bytes, alignment) ==
    LET r == linear_do_allocate(super(s), bytes, alignment)
    IN  IF r.ok THEN [result |-> r.ptr, s |-> [s EXCEPT !.count = r.lb.count]]
        ELSE [result |-> 0, s |-> [s EXCEPT !.count = s.count + bytes]]

(* try_super_allocate: super::do_allocate, bad_alloc swallowed; 0 stands   *)
(* for nullptr.                                                            *)
try_super_allocate(s, bytes, alignment) ==
    LET r == linear_do_allocate(super(s), bytes, alignment)
    IN  IF r.ok THEN [result |-> r.ptr, s |-> [s EXCEPT !.count = r.lb.count]]
        ELSE [result |-> 0, s |-> s]

(* try_upstream_allocate: the call it makes on the upstream is deallocate  *)
(* of its own null result, which is what it then returns.                  *)
try_upstream_allocate(s, bytes, alignment) ==
    LET result == 0
    IN  [result |-> result,
         calls  |-> IF s.upstream_ /= "none"
                    THEN <<[op |-> "deallocate", ptr |-> result,
                            bytes |-> bytes, alignment |-> alignment]>>
                    ELSE <<>>]

(* scratch_buffer_resource::do_allocate                                    *)
scratch_do_allocate(s, bytes, alignment) ==
    LET local == try_super_allocate(s, bytes, alignment)
        upper == try_upstream_allocate(local.s, bytes, alignment)
    IN  IF local.result /= 0
        THEN [throws |-> FALSE, ptr |-> local.result, s |-> local.s,
              local |-> TRUE, calls |-> <<>>]
        ELSE IF upper.result /= 0
        THEN [throws |-> FALSE, ptr |-> upper.result,
              s |-> [local.s EXCEPT !.buffer = upper.result,
                                    !.length = bytes],
              local |-> FALSE, calls |-> upper.calls]
        ELSE [throws |-> TRUE, ptr |-> 0, s |-> local.s,
              local |-> FALSE, calls |-> upper.calls]

(* scratch_buffer_resource(buffer, length) and                             *)
(* scratch_buffer_resource(buffer, length, upstream)                       *)
ScratchConstruct ==
    /\ slast.op = "none"
    /\ \E buffer \in LinearBuffers, length \in LinearLengths,
          upstream \in Upstreams :
          sbr' = [buffer |-> buffer, length |-> length, count |-> 0,
                  upstream_ |-> upstream]
    /\ slast' = [NoScratchCall EXCEPT !.op = "construct"]
    /\ UNCHANGED <<arena_vars, mapped, other, linear_vars, up, vmem_vars>>

(* allocate(bytes, alignment) -> do_allocate; up keeps the calls this one  *)
(* made on the upstream.                                                   *)
ScratchAllocate ==
    /\ slast.op /= "none"
    /\ \E bytes \in LinearByteSizes, alignment \in LinearAlignments :
          LET r == scratch_do_allocate(sbr, bytes, alignment)
          IN  /\ sbr' = r.s
              /\ up' = r.calls
              /\ slast' = [op |-> "allocate", bytes |-> bytes,
                           alignment |-> alignment, ptr |-> r.ptr,
                           ok |-> ~r.throws, pre |-> sbr, local |-> r.local,
                           arena |-> Unconstructed]
    /\ UNCHANGED <<arena_vars, mapped, other, linear_vars, vmem_vars>>

(* reset(), inherited.                                                     *)
ScratchReset ==
    /\ slast.op /= "none"
    /\ sbr' = [sbr EXCEPT !.count = linear_reset(super(sbr)).count]
    /\ up' = <<>>
    /\ slast' = [NoScratchCall EXCEPT !.op = "reset", !.pre = sbr]
    /\ UNCHANGED <<arena_vars, mapped, other, linear_vars, vmem_vars>>

NextScratch == ScratchConstruct \/ ScratchAllocate \/ ScratchReset

SpecScratch == Init /\ [][NextScratch]_vars

----------------------------------------------------------------------------
(* A scratch resource with the arena as its upstream resource.             *)

(* scratch_buffer_resource(buffer, length, &arena)                         *)
ScratchOnArena ==
    /\ phase = "live"
    /\ slast.op = "none"
    /\ \E buffer \in LinearBuffers, length \in LinearLengths :
          sbr' = [buffer |-> buffer, length |-> length, count |-> 0,
                  upstream_ |-> "arena"]
    /\ slast' = [NoScratchCall EXCEPT !.op = "construct"]
    /\ UNCHANGED <<arena_vars, mapped, other, linear_vars, up, vmem_vars>>

(* The arena's do_deallocate for the calls a scratch allocate made on it.  *)
UpstreamCalls(a, calls) ==
    IF calls = <<>>
    THEN {[aborted |-> FALSE, throws |-> FALSE, a |-> a, at |-> NoRead]}
    ELSE vmem_deallocate_region(a, calls[1].ptr, calls[1].bytes,
                                calls[1].alignment)

(* The deallocate calls the arena received for no allocation of its own.   *)
Unmatched == BagCardinality(live) + 1 - allocations

(* allocate(bytes, alignment) on the scratch resource over the arena;      *)
(* slast.arena is the arena the call found.                                *)
ScratchAllocateArena ==
    /\ phase = "live"
    /\ sbr.upstream_ = "arena"
    /\ Unmatched < MaxStackedReleases
    /\ \E bytes \in LinearByteSizes \ {0},
          alignment \in LinearAlignments \ {0} :
          LET r == scratch_do_allocate(sbr, bytes, alignment)
          IN  \E d \in UpstreamCalls(Arena, r.calls) :
                 /\ sbr' = r.s
                 /\ up' = r.calls
                 /\ slast' = [op |-> "allocate", bytes |-> bytes,
                              alignment |-> alignment, ptr |-> r.ptr,
                              ok |-> ~r.throws, pre |-> sbr,
                              local |-> r.local, arena |-> Arena]
                 /\ SetArena(d.a)
                 /\ phase' = IF d.aborted THEN "aborted" ELSE phase
    /\ UNCHANGED <<live, last, scenario, nallocs, mapped, released, other,
                   linear_vars, syscalls, vmem_vars>>

ConstructStacked == ConstructWith({k_default_capacity})

AllocateStacked == AllocateWith(ByteSizes, Alignments, MaxStackedAllocs)

NextStacked ==
    \/ ConstructStacked \/ AllocateStacked
    \/ ScratchOnArena \/ ScratchAllocateArena

SpecStacked == Init /\ [][NextStacked]_vars

----------------------------------------------------------------------------
(* simular::allocators::vmem (virtual.hpp) on the POSIX backend.  Its      *)
(* private functions carry the names of the arena's, so the class name is  *)
(* put in front of them here.                                              *)

k_max_allocation_size == 4194304

(* sizeof(vmem::region): used, next and data, 8 bytes each.                *)
sizeof_vmem_region == 24

(* Where mmap places the regions of vm: the n-th one at VmemOrigin plus    *)
(* n - 1 strides, back to back or with a gap of a region's size between.   *)
VmemOrigin == 536870912

VmemStrides == {k_max_allocation_size, 2 * k_max_allocation_size}

VmemCapacities == {0, 1, k_default_capacity, 3 * k_default_capacity}

VmemSizes == {4, 3 * mebibytes, k_max_allocation_size - sizeof_vmem_region}

VmemAlignments == {1, 4, 64}

(* The answers of the kernel to the mmap calls of one vmem_acquire_region  *)
(* when it still grants avail regions.                                     *)
VmemKernel(avail) == IF avail > 0 THEN <<"ok">> ELSE <<"ENOMEM">>

(* The while loop of vmem::vmem_acquire_region.                            *)
vmem_vmem_acquire_mmap(size, answers) ==
    LET res      == size \div 16
        min_size == IF res < 1 THEN size ELSE res
    IN  mmap_loop(size, min_size, answers, 1, <<>>)

(* vmem::vmem_init_region_header on a mapping of size bytes at base.       *)
vmem_init_region_header(base, size) ==
    [base |-> base, size |-> size, mapped |-> TRUE,
     used |-> sizeof_vmem_region, next |-> 0, data |-> base]

(* vmem::vmem_acquire_region(ppregion, k_max_allocation_size), ppregion    *)
(* being &first_ (link = 0) or the next member of region link.  The        *)
(* pointer is written only once the mapping exists.                        *)
vmem_vmem_acquire_region(v, link, answers) ==
    LET m      == vmem_vmem_acquire_mmap(k_max_allocation_size, answers)
        index  == Len(v.regs) + 1
        base   == VmemOrigin + Len(v.regs) * v.stride
        linked == IF link = 0 THEN [v EXCEPT !.first_ = index]
                  ELSE [v EXCEPT !.regs[link].next = index]
    IN  IF ~m.ok THEN [ok |-> FALSE, v |-> v, index |-> 0]
        ELSE [ok |-> TRUE, index |-> index,
              v |-> [linked EXCEPT !.regs =
                        Append(linked.regs,
                               vmem_init_region_header(base, m.size))]]

(* The for loop of vmem::vmem_acquire: index is an int compared with the   *)
(* size_t count - 1.                                                       *)
RECURSIVE AcquireChain(_, _, _, _, _)
AcquireChain(v, temp, index, count, avail) ==
    IF ~size_t_gt(count - 1, index) THEN [ok |-> TRUE, v |-> v]
    ELSE LET r == vmem_vmem_acquire_region(v, temp, VmemKernel(avail))
         IN  IF ~r.ok THEN [ok |-> FALSE, v |-> v]
             ELSE AcquireChain(r.v, r.index, index + 1, count, avail - 1)

(* vmem::vmem_acquire(size); ok is false when bad_alloc leaves it.         *)
vmem_vmem_acquire(v, size, avail) ==
    LET whole     == size \div k_max_allocation_size
        remainder == size % k_max_allocation_size
        count     == IF remainder /= 0 THEN whole + 1 ELSE whole
        head      == vmem_vmem_acquire_region(v, 0, VmemKernel(avail))
        chain     == AcquireChain(head.v, head.index, 0, count, avail - 1)
    IN  IF ~head.ok THEN [ok |-> FALSE, v |-> v]
        ELSE IF ~chain.ok THEN chain
        ELSE [ok |-> TRUE,
              v  |-> [chain.v EXCEPT !.curr_ = chain.v.first_,
                                     !.total_size_ = size,
                                     !.total_used_ = 0]]

(* vmem::vmem(size_mib)                                                    *)
vmem_constructor(v, size_mib, avail) ==
    LET capped == IF size_mib > k_max_allocation_size
                  THEN k_max_allocation_size ELSE size_mib
    IN  vmem_vmem_acquire(v, mebibytes * capped, avail)

(* vmem::vmem_release(pregion), pregion being region k.                    *)
RECURSIVE vmem_vmem_release(_, _)
vmem_vmem_release(v, k) ==
    LET v1 == IF v.regs[k].next /= 0 THEN vmem_vmem_release(v, v.regs[k].next)
              ELSE v
    IN  [v1 EXCEPT !.total_used_ = v1.total_used_ - v1.regs[k].used,
                   !.total_size_ = v1.total_size_ - k_max_allocation_size,
                   !.regs[k].mapped = FALSE]

(* vmem_allocate_region that returns the address the region has reached,   *)
(* aligned or not.                                                         *)
vmem_aligned_addr_unaligned(current_addr, alignment) == current_addr

(* aligned_addr = (current_addr + alignment - 1) & ~(alignment - 1), the   *)
(* and written as x - (x & (alignment - 1)).                               *)
vmem_aligned_addr(current_addr, alignment) ==
    LET sum == current_addr + alignment - 1
    IN  sum - BitAnd(sum, alignment - 1)

(* vmem::vmem_allocate_region(ppregion, size, alignment), *ppregion being  *)
(* region r; the kernel still grants avail regions.                        *)
RECURSIVE vmem_vmem_allocate_region(_, _, _, _, _)
vmem_vmem_allocate_region(v, r, size, alignment, avail) ==
    LET reg          == v.regs[r]
        region_data  == reg.data
        current_addr == region_data + reg.used
        aligned_addr == vmem_aligned_addr(current_addr, alignment)
        allocated    == size + reg.used + (aligned_addr - current_addr)
    IN  IF /\ k_max_allocation_size < allocated
           /\ v.total_used_ + allocated < v.total_size_
        THEN LET result == vmem_vmem_acquire_region(v, r, VmemKernel(avail))
             IN  IF ~result.ok THEN [throws |-> TRUE, ptr |-> 0, v |-> v]
                 ELSE vmem_vmem_allocate_region(result.v, result.index, size,
                                                alignment, avail - 1)
        ELSE [throws |-> FALSE, ptr |-> aligned_addr,
              v |-> [v EXCEPT !.regs[r].used = allocated,
                              !.total_used_ = v.total_used_ + allocated]]

(* vmem mem(size_mib);                                                     *)
VmemConstruct ==
    /\ vm.phase = "none"
    /\ \E size_mib \in VmemCapacities, stride \in VmemStrides,
          avail \in 0..MaxVmemRegions :
          LET r == vmem_constructor([vm EXCEPT !.stride = stride], size_mib,
                                    avail)
          IN  /\ vm' = [r.v EXCEPT !.phase = IF r.ok THEN "live"
                                             ELSE "failed"]
              /\ vlast' = [NoVmemCall EXCEPT !.op = "construct",
                                             !.size = size_mib,
                                             !.ok = r.ok]
    /\ UNCHANGED <<arena_vars, mapped, other, linear_vars, scratch_vars,
                   vspans>>

(* mem.allocate(size, alignment)                                           *)
VmemAllocate ==
    /\ vm.phase = "live"
    /\ vlast.n < MaxVmemAllocs
    /\ \E size \in VmemSizes, alignment \in VmemAlignments,
          avail \in 0..(MaxVmemRegions - Len(vm.regs)) :
          LET r == vmem_vmem_allocate_region(vm, vm.curr_, size, alignment,
                                             avail)
          IN  /\ vm' = r.v
              /\ vlast' = [op |-> "allocate", size |-> size,
                           alignment |-> alignment, ptr |-> r.ptr,
                           ok |-> ~r.throws, pre |-> vm, n |-> vlast.n + 1]
              /\ vspans' = IF r.throws THEN vspans
                           ELSE Append(vspans, [ptr |-> r.ptr, size |-> size])
    /\ UNCHANGED <<arena_vars, mapped, other, linear_vars, scratch_vars>>

(* ~vmem()                                                                 *)
VmemDestroy ==
    /\ vm.phase = "live"
    /\ vm' = [(IF vm.first_ /= 0 THEN vmem_vmem_release(vm, vm.first_)
               ELSE vm) EXCEPT !.phase = "destroyed"]
    /\ vlast' = [NoVmemCall EXCEPT !.op = "destroy", !.pre = vm,
                                   !.n = vlast.n]
    /\ UNCHANGED <<arena_vars, mapped, other, linear_vars, scratch_vars,
                   vspans>>

NextVmem == VmemConstruct \/ VmemAllocate \/ VmemDestroy

SpecVmem == Init /\ [][NextVmem]_vars

----------------------------------------------------------------------------
(* Vocabulary of the properties.                                           *)

(* [a1, a1 + n1) and [a2, a2 + n2) have a byte in common.                  *)
Overlap(a1, n1, a2, n2) == a1 < a2 + n2 /\ a2 < a1 + n1

(* [a, a + n) lies inside [lo, hi).                                        *)
Inside(a, n, lo, hi) == lo <= a /\ a + n <= hi

FreeEntries == {free_list_[i] : i \in 1..Len(free_list_)}

LiveSet == BagToSet(live)

(* The backing storage of the free-list vector.                            *)
FreeListStorage ==
    [addr |-> regions[1] + sizeof_region,
     size |-> k_free_list_size * sizeof_freed]

(* Entry e of a free list can hold a request of bytes at alignment.        *)
Fits(e, bytes, alignment) ==
    e.size >= bytes + calc_fwd_adjust(e.addr, alignment)

----------------------------------------------------------------------------
(* C1: every address returned by a successful allocate(b, a), b > 0 and    *)
(* a a power of two, is a multiple of a.                                   *)
C1_ReturnedAddressAligned ==
    (last.op = "allocate" /\ last.ok) => last.ptr % last.alignment = 0

(* C2: the byte ranges of any two live allocations are disjoint, and each  *)
(* lies inside the usable span (after the header) of one region.           *)
C2_LiveAllocationsDisjoint ==
    phase = "live" =>
       /\ \A x, y \in LiveSet :
             (x /= y \/ CopiesIn(x, live) > 1)
                => ~Overlap(x.ptr, x.bytes, y.ptr, y.bytes)
       /\ \A x \in LiveSet : \E k \in 1..Len(regions) :
             Inside(x.ptr, x.bytes,
                    regions[k] + sizeof_region, regions[k] + k_regsize)

(* C3: every free-list entry lies within some region, overlaps no other    *)
(* free-list entry and overlaps no live allocation.                        *)
C3_FreeBlocksSound ==
    phase = "live" =>
       /\ \A i \in 1..Len(free_list_) : \E k \in 1..Len(regions) :
             Inside(free_list_[i].addr, free_list_[i].size,
                    regions[k], regions[k] + k_regsize)
       /\ \A i, j \in 1..Len(free_list_) :
             i /= j => ~Overlap(free_list_[i].addr, free_list_[i].size,
                                free_list_[j].addr, free_list_[j].size)
       /\ \A i \in 1..Len(free_list_) : \A x \in LiveSet :
             ~Overlap(free_list_[i].addr, free_list_[i].size, x.ptr, x.bytes)

(* C4: no free-list entry covers a byte of the free-list vector's backing  *)
(* storage and no allocate returns a span overlapping it.                  *)
C4_FreeListStoragePermanentlyLive ==
    phase = "live" =>
       /\ \A e \in FreeEntries :
             ~Overlap(e.addr, e.size,
                      FreeListStorage.addr, FreeListStorage.size)
       /\ (last.op = "allocate" /\ last.ok)
             => ~Overlap(last.ptr, last.bytes,
                         FreeListStorage.addr, FreeListStorage.size)

(* C5: after any operation the free list holds no two entries e1, e2 with  *)
(* e1.addr + e1.size = e2.addr.                                            *)
C5_NoAdjacentFreeBlocks ==
    phase = "live" =>
       \A e1, e2 \in FreeEntries : e1.addr + e1.size /= e2.addr

(* C6: after allocating three adjacent blocks A, B, C of equal size and    *)
(* deallocating A, then C, then B, the free list has the entries it had    *)
(* before the three allocations.                                           *)
C6_CoalesceBothSides ==
    (phase = "live" /\ scenario.stage = 6) =>
       /\ Len(free_list_) = Len(scenario.before)
       /\ FreeEntries = {scenario.before[i] : i \in 1..Len(scenario.before)}

(* C7: when the free list holds blocks of distinct sizes and the request   *)
(* fits in several of them, allocate carves it out of the smallest block   *)
(* that is large enough.                                                   *)
C7_BestFit ==
    LET fl      == last.pre.free_list_
        fitting == {i \in 1..Len(fl) : Fits(fl[i], last.bytes, last.alignment)}
        within  == {i \in 1..Len(fl) :
                       Inside(last.ptr, last.bytes,
                              fl[i].addr, fl[i].addr + fl[i].size)}
    IN  (/\ last.op = "allocate"
         /\ last.ok
         /\ \A i, j \in 1..Len(fl) : i < j => fl[i].size < fl[j].size
         /\ Cardinality(fitting) >= 2)
        => \A i \in within :
              /\ i \in fitting
              /\ \A j \in fitting : fl[i].size <= fl[j].size

(* C8: an allocate of 0 < bytes <= k_max_alloc_size that no free block can *)
(* hold, with address space left for mmap, succeeds by adding exactly one  *)
(* region at the tail of the chain and returns an address inside it.       *)
C8_GrowthOnDemand ==
    LET fl == last.pre.free_list_
    IN  (/\ last.op = "allocate"
         /\ 0 < last.bytes
         /\ last.bytes <= k_max_alloc_size
         /\ \A i \in 1..Len(fl) : ~Fits(fl[i], last.bytes, last.alignment)
         /\ FreshBases(last.pre) /= {0})
        => /\ last.ok
           /\ Len(regions) = Len(last.pre.regions) + 1
           /\ SubSeq(regions, 1, Len(last.pre.regions)) = last.pre.regions
           /\ total_regions = last.pre.total_regions + 1
           /\ total_size = last.pre.total_size + k_max_alloc_size
                                               + sizeof_region
           /\ Inside(last.ptr, last.bytes,
                     regions[Len(regions)] + sizeof_region,
                     regions[Len(regions)] + k_regsize)

C10_TotalSizeMatchesRegions ==
    phase = "live" =>
       total_size = total_regions * (k_max_alloc_size + sizeof_region)

C10_Witness ==
    /\ phase = "live"
    /\ last.op = "deallocate"
    /\ last.ok
    /\ total_regions = 2
    /\ nallocs >= 2

(* C11: in every reachable state of a live arena total_used is at most     *)
(* total_size, and it never drops below zero.                              *)
C11_UsedWithinSize ==
    phase = "live" => 0 <= total_used /\ total_used <= total_size

C14_ZeroBytesRejected ==
    (phase = "live" /\ last.op = "allocate" /\ last.bytes = 0) =>
        /\ ~last.ok
        /\ last.ptr = 0
        /\ allocations = last.pre.allocations
        /\ total_used = last.pre.total_used
        /\ free_list_ = last.pre.free_list_

(* C13: p = allocate(b, a) directly followed by deallocate(p, b, a) puts   *)
(* total_used, allocations and the free-list entries (their sizes and      *)
(* addresses) back to what they were before the allocate.  Stated for the  *)
(* deallocate calls that return.                                           *)
C13_RoundTripRestores ==
    (last.op = "deallocate" /\ last.round /\ last.ok) =>
        /\ total_used = last.start.total_used
        /\ allocations = last.start.allocations
        /\ Len(free_list_) = Len(last.start.free_list_)
        /\ FreeEntries = {last.start.free_list_[i] :
                             i \in 1..Len(last.start.free_list_)}

(* C15: an arena allocate that fails leaves the free list, the region      *)
(* chain and the four counters exactly as they were, so the calls that     *)
(* follow start from the state the failed call found.                      *)
C15_FailedAllocateChangesNothing ==
    (last.op = "allocate" /\ ~last.ok) =>
        /\ Arena = last.pre
        /\ phase = "live"

C15_Witness ==
    /\ last.op = "allocate"
    /\ ~last.ok
    /\ last.bytes = k_max_alloc_size
    /\ BagCardinality(live) = 2
    /\ Arena = last.pre

(* The regions the constructor of the last call had to acquire.            *)
Wanted == Blocks(last.capacity * mebibytes)

(* C16: the free list may need more entries than it was reserved for: a    *)
(* construction with more regions than k_free_list_size succeeds once      *)
(* every region was acquired.                                              *)
C16_FreeListOutgrowsReserve ==
    (last.op = "construct" /\ Len(regions) = Wanted) =>
        /\ last.ok
        /\ Len(free_list_) = Wanted

(* C17: when the acquisition of a region fails after k >= 1 regions were    *)
(* acquired, the constructor has handed all k back before the failure      *)
(* reaches the caller.                                                     *)
C17_PartialConstructionReleased ==
    (last.op = "construct" /\ ~last.ok
        /\ 1 <= total_regions /\ total_regions < Wanted) =>
        /\ mapped = {}
        /\ Len(released) = total_regions

C19_IsEqualByFirstRegion ==
    (phase = "live" /\ other.kind /= "none") =>
        /\ other.kind = "copy" => do_is_equal(Arena, other)
        /\ other.kind = "arena" => ~do_is_equal(Arena, other)
        /\ other.kind = "linear" => ~do_is_equal(Arena, other)

C19_Witness ==
    /\ phase = "live"
    /\ other.kind = "copy"
    /\ total_used /= other.a.total_used
    /\ allocations /= other.a.allocations
    /\ free_list_ /= other.a.free_list_
    /\ do_is_equal(Arena, other)

(* C20: a successful linear_buffer_resource allocate(bytes, alignment),    *)
(* with adj = (-(buffer + count)) mod alignment, returns the aligned       *)
(* address buffer + count + adj and advances count by adj + bytes.         *)
C20_LinearAllocateAdvance ==
    (llast.op = "allocate" /\ llast.ok) =>
        LET before == llast.pre.count
            adj    == (-(lbr.buffer + before)) % llast.alignment
        IN  /\ llast.ptr = lbr.buffer + before + adj
            /\ llast.ptr % llast.alignment = 0
            /\ lbr.count = before + adj + llast.bytes

(* C21: a linear_buffer_resource allocate(bytes, alignment) fails exactly  *)
(* when bytes is 0, alignment is 0, or count + adj + bytes exceeds length, *)
(* adj being the forward adjustment of buffer + count; a failed call       *)
(* leaves buffer, length and count as they were.                           *)
C21_LinearFailsExactlyWhenFull ==
    llast.op = "allocate" =>
        LET pre  == llast.pre
            adj  == IF llast.alignment = 0 THEN 0
                    ELSE (-(pre.buffer + pre.count)) % llast.alignment
            full == pre.count + adj + llast.bytes > pre.length
        IN  /\ ~llast.ok <=> (llast.bytes = 0 \/ llast.alignment = 0 \/ full)
            /\ ~llast.ok => lbr = pre

(* C22: 0 <= count <= length after any sequence of allocate, deallocate,   *)
(* reset, clear and change_buffer calls on a linear_buffer_resource.       *)
C22_CountWithinLength ==
    0 <= lbr.count /\ lbr.count <= lbr.length

C22_Witness ==
    /\ llast.op = "allocate"
    /\ llast.ok
    /\ llast.pre.count > 0
    /\ lbr.count = lbr.length
    /\ lbr.length = MaxLinearLength \div 2

(* C23: deallocate(ptr, bytes, alignment) of a linear_buffer_resource      *)
(* leaves buffer, length and count as they were, whatever the arguments;   *)
(* count goes down by reset and clear only.                                *)
C23_LinearDeallocateNoOp ==
    /\ llast.op = "deallocate" => (lbr = llast.pre /\ lmem = llast.mem)
    /\ llast.op \notin {"none", "construct", "reset", "clear"} =>
          lbr.count >= llast.pre.count

C23_Witness ==
    /\ llast.op = "deallocate"
    /\ llast.bytes = 8
    /\ llast.ptr + llast.bytes = lbr.buffer + lbr.count
    /\ llast.ptr /= 0

(* C24: reset() and clear() both give count = 0 and keep buffer and        *)
(* length, which is the state a resource constructed over the same buffer  *)
(* starts in; reset keeps the buffer's bytes, clear zeroes all of them.    *)
C24_ResetAndClear ==
    llast.op \in {"reset", "clear"} =>
        /\ lbr = [buffer |-> llast.pre.buffer, length |-> llast.pre.length,
                  count |-> 0]
        /\ llast.op = "reset" => lmem = llast.mem
        /\ llast.op = "clear" => lmem = Filled(lbr.length, 0)

C24_Witness ==
    /\ llast.op = "clear"
    /\ llast.pre.count > 0
    /\ llast.mem = Filled(lbr.length, 2)
    /\ lmem = Filled(lbr.length, 0)

(* The last scratch allocate was one the local buffer could not serve.     *)
LocalRefused == slast.op = "allocate" /\ ~slast.local

(* C25: when the local buffer cannot serve allocate(bytes, alignment) and  *)
(* an upstream that can supply bytes is configured, the scratch resource   *)
(* asks the upstream for a slab of at least bytes, rebinds its buffer to   *)
(* the slab, and the call succeeds with an address inside the slab.        *)
C25_ScratchFallsBackUpstream ==
    (LocalRefused /\ slast.pre.upstream_ = "new_delete"
        /\ slast.bytes > 0 /\ slast.alignment > 0) =>
        /\ slast.ok
        /\ \E k \in 1..Len(up) :
              /\ up[k].op = "allocate"
              /\ up[k].bytes >= slast.bytes
        /\ sbr.buffer <= slast.ptr
        /\ slast.ptr + slast.bytes <= sbr.buffer + sbr.length
        /\ sbr.buffer /= slast.pre.buffer

(* C26: when the local buffer cannot serve a scratch allocate and no       *)
(* upstream is configured, or the upstream supplies nothing, the call      *)
(* fails with bad_alloc and leaves buffer, length and count as they were.  *)
C26_ScratchFailureChangesNothing ==
    (LocalRefused /\ slast.pre.upstream_ \in {"none", "null"}) =>
        /\ ~slast.ok
        /\ slast.ptr = 0
        /\ sbr = slast.pre

C26_Witness ==
    /\ LocalRefused
    /\ slast.pre.upstream_ = "null"
    /\ slast.bytes = 8
    /\ slast.pre.count > 0
    /\ ~slast.ok
    /\ Len(up) = 1

(* C27: the free list of a live arena is in non-decreasing order of size   *)
(* after construction, after every allocate and after every deallocate.    *)
C27_FreeListSortedBySize ==
    phase = "live" =>
        \A i \in 1..(Len(free_list_) - 1) :
            free_list_[i].size <= free_list_[i + 1].size

C27_Witness ==
    /\ phase = "live"
    /\ last.op = "deallocate"
    /\ last.ok
    /\ Len(free_list_) = 3
    /\ free_list_[1].size < free_list_[2].size
    /\ free_list_[1].addr > free_list_[2].addr

(* The entries of the free list before the last call that start where the  *)
(* address it returned does: the ones it can have selected.                *)
Selected ==
    {i \in 1..Len(last.pre.free_list_) :
        last.pre.free_list_[i].addr = last.ptr}

(* C28: a successful arena allocate(bytes, alignment) that selects entry e *)
(* consumes need = bytes + ((-e.addr) mod alignment), computed for e       *)
(* alone: total_used grows by need, allocations by 1, e is shrunk by need  *)
(* and starts need later, or is gone when e.size = need, and every other   *)
(* entry keeps its size and address.                                       *)
C28_NeedOfSelectedEntryOnly ==
    (last.op = "allocate" /\ last.ok /\ last.bytes > 0) =>
        \E i \in Selected :
            LET before == last.pre.free_list_
                e      == before[i]
                need   == last.bytes + ((-e.addr) % last.alignment)
                others == {before[j] : j \in 1..Len(before) \ {i}}
                left   == IF e.size = need THEN {}
                          ELSE {[size |-> e.size - need,
                                 addr |-> e.addr + need]}
            IN  /\ total_used = last.pre.total_used + need
                /\ allocations = last.pre.allocations + 1
                /\ FreeEntries = others \cup left

(* C30: once the arena is destroyed, total_used, total_size, total_regions *)
(* and allocations are all zero.                                           *)
C30_CountersZeroAfterDestruction ==
    phase = "destroyed" =>
        /\ total_used = 0
        /\ total_size = 0
        /\ total_regions = 0
        /\ allocations = 0

(* The mmap calls of the constructor that mapped.                          *)
Mapped == {k \in 1..Len(syscalls) : syscalls[k].result = "ok"}

(* C29: region acquisition on POSIX asks for the whole region first, asks  *)
(* for half as much after ENOMEM, EOVERFLOW or EAGAIN while the request is *)
(* at least a 16th of the region (five calls at most), makes no call after *)
(* any other error, and when it gives up the constructor fails with        *)
(* total_regions, total_used and the chain as the regions mapped before    *)
(* left them.                                                              *)
C29_PosixAcquireRetries ==
    /\ \A k \in 1..Len(syscalls) :
          /\ syscalls[k].length >= k_regsize \div 16
          /\ k = 1 => syscalls[k].length = k_regsize
          /\ k > 1 =>
                LET prev == syscalls[k - 1]
                IN  /\ prev.result \in Retriable \cup {"ok"}
                    /\ prev.result = "ok" => syscalls[k].length = k_regsize
                    /\ prev.result \in Retriable =>
                          syscalls[k].length = prev.length \div 2
    /\ \A k \in 1..(Len(syscalls) - 5) :
          \E j \in k..(k + 4) : syscalls[j].result = "ok"
    /\ (syscalls /= <<>> /\ Len(syscalls) \notin Mapped) =>
          /\ phase = "failed"
          /\ ~last.ok
          /\ syscalls[Len(syscalls)].result \in Retriable =>
                syscalls[Len(syscalls)].length \div 2 < k_regsize \div 16
          /\ total_regions = Cardinality(Mapped)
          /\ Len(regions) = Cardinality(Mapped)
          /\ total_used = Cardinality(Mapped) * sizeof_region

C29_Witness ==
    /\ phase = "failed"
    /\ Len(syscalls) = 8
    /\ syscalls[1].result = "EAGAIN"
    /\ syscalls[3].result = "ok"
    /\ syscalls[8].result = "EOVERFLOW"
    /\ total_regions = 1


(* The bytes the free list of a live arena holds, entry sizes summed.      *)
RECURSIVE FreeBytes(_)
FreeBytes(fl) ==
    IF fl = <<>> THEN 0 ELSE Head(fl).size + FreeBytes(Tail(fl))

(* C32: in every state a live arena reaches by allocate and matched        *)
(* deallocate calls, total_used plus the sizes of all free-list entries    *)
(* is total_size.                                                          *)
C32_ByteConservation ==
    phase = "live" => total_used + FreeBytes(free_list_) = total_size

(* C33: an arena allocate(bytes, alignment) with bytes > 0 does not fail   *)
(* while some free-list entry e has e.size >= bytes + ((-e.addr) mod       *)
(* alignment).                                                             *)
C33_AllocateComplete ==
    LET fl == last.pre.free_list_
    IN  (/\ last.op = "allocate"
         /\ last.bytes > 0
         /\ \E i \in 1..Len(fl) : Fits(fl[i], last.bytes, last.alignment))
        => last.ok


(* C39: every free-list position an arena deallocate reads or writes is a  *)
(* valid one; the right-coalesce step in particular reads no entry at or   *)
(* past the end of the list.                                               *)
C39_DeallocateReadsInsideList ==
    last.op = "deallocate" => last.at.index <= last.at.size


(* The bytes the mappings of ms cover.                                     *)
RECURSIVE MappedBytes(_)
MappedBytes(ms) ==
    IF ms = {} THEN 0
    ELSE LET m == CHOOSE x \in ms : TRUE
         IN  m.size + MappedBytes(ms \ {m})

(* C35: every region on the chain of a live arena is backed by at least    *)
(* k_max_alloc_size + 8 mapped bytes, also when mmap succeeded only after  *)
(* the request was halved: every free-list entry lies within the bytes     *)
(* mapped for its region and total_size is at most the bytes mapped.       *)
C35_RegionsFullyBacked ==
    phase = "live" =>
        /\ \A k \in 1..Len(regions) : \E m \in mapped :
              /\ m.base = regions[k]
              /\ m.size >= k_max_alloc_size + sizeof_region
        /\ \A e \in FreeEntries : \E m \in mapped :
              Inside(e.addr, e.size, m.base, m.base + m.size)
        /\ total_size <= MappedBytes(mapped)


(* C34: no region is handed to munmap more than once over the life of the *)
(* program, also when an arena was copied and both the copy and the        *)
(* original are destroyed.                                                 *)
C34_NoRegionReleasedTwice ==
    \A i, j \in 1..Len(released) : i /= j => released[i] /= released[j]


(* C36: between two resets of a linear_buffer_resource every span          *)
(* [p, p + bytes) that allocate returned lies inside                       *)
(* [buffer, buffer + length), and no two of the spans overlap.  Stated     *)
(* for the MaxLinearSpans spans returned last.                             *)
C36_LinearSpansDisjoint ==
    /\ \A i \in 1..Len(lspans) :
          Inside(lspans[i].ptr, lspans[i].bytes,
                 lbr.buffer, lbr.buffer + lbr.length)
    /\ \A i, j \in 1..Len(lspans) :
          i /= j => ~Overlap(lspans[i].ptr, lspans[i].bytes,
                             lspans[j].ptr, lspans[j].bytes)

(* C37: a linear_buffer_resource allocate of more bytes than the           *)
(* length - count that remain fails, for every bytes up to the largest     *)
(* size_t, and no allocate makes count smaller.                            *)
C37_LinearNoWrapAround ==
    llast.op = "allocate" =>
        /\ size_t_gt(llast.bytes, llast.pre.length - llast.pre.count)
              => ~llast.ok
        /\ lbr.count >= llast.pre.count


(* C38: a scratch_buffer_resource allocate never calls deallocate on its   *)
(* upstream: the one call it may make there is an allocate of at least     *)
(* bytes, so an upstream arena loses no allocation, no used byte and       *)
(* gains no free byte by it.                                               *)
C38_ScratchNeverReleasesUpstream ==
    slast.op = "allocate" =>
        /\ Len(up) <= 1
        /\ \A k \in 1..Len(up) :
              /\ up[k].op = "allocate"
              /\ up[k].bytes >= slast.bytes
        /\ slast.pre.upstream_ = "arena" =>
              /\ allocations >= slast.arena.allocations
              /\ total_used >= slast.arena.total_used
              /\ FreeBytes(free_list_) <= FreeBytes(slast.arena.free_list_)


(* C31: on a constructed vmem every allocate(size, alignment) with a       *)
(* power-of-two alignment that returns, returns an address that is not     *)
(* null and is a multiple of alignment.                                    *)
C31_VmemAddressAligned ==
    (vlast.op = "allocate" /\ vlast.ok) =>
        /\ vlast.ptr /= 0
        /\ vlast.ptr % vlast.alignment = 0

C31_Witness ==
    /\ vlast.op = "allocate"
    /\ vlast.ok
    /\ vlast.alignment = 64
    /\ vlast.pre.regs[vlast.pre.curr_].used % 64 /= 0
    /\ Len(vm.regs) > Len(vlast.pre.regs)
    /\ vlast.ptr % 64 = 0

(* C40: every span [p, p + size) a vmem allocate returned lies inside one  *)
(* acquired region of k_max_allocation_size bytes, after the region's      *)
(* header, and overlaps no span returned before.                           *)
C40_VmemSpansInsideRegions ==
    /\ \A i \in 1..Len(vspans) : \E k \in 1..Len(vm.regs) :
          Inside(vspans[i].ptr, vspans[i].size,
                 vm.regs[k].base + sizeof_vmem_region,
                 vm.regs[k].base + k_max_allocation_size)
    /\ \A i, j \in 1..Len(vspans) :
          i /= j => ~Overlap(vspans[i].ptr, vspans[i].size,
                             vspans[j].ptr, vspans[j].size)

============================================================================
